---- MODULE Spec2Model ----
(***************************************************************************)
(* Model of verlib's version ordering (src/src/cmp.rs), of the numeric     *)
(* field checker (src/src/utils.rs) and of the semver converter            *)
(* (src/src/semver.rs).  Strings are sequences of bytes (ASCII codes).     *)
(* Positions are 0-based as in the source: byte i of a slice s is s[i+1].  *)
(***************************************************************************)
EXTENDS Integers, Sequences, FiniteSets, TLC

VARIABLES
    a, b,           \* compare_versions: the two strings
    pos_a, pos_b,   \* compare_versions: the scan positions
    pc,             \* compare_versions: the control point
    head_a, head_b, \* compare_versions: the positions at the last loop test
    result,         \* compare_versions / compare_alpha: the Ordering returned
    input,          \* to_semver: the bytes of self.0 read so far
    field,          \* to_semver: the field index
    num_check,      \* to_semver: the NumChecker
    version,        \* to_semver: the output buffer
    read_epoch,     \* to_semver: an epoch has been dropped
    outcome,        \* to_semver: "Scanning", "Ok" or the ToSemverError
    checker,        \* all_checks: the NumChecker
    fed,            \* all_checks: the bytes passed to check so far
    returned,       \* all_checks: what each call of check returned
    trail           \* all_checks: the NumChecker after each call of check

cmp_vars == <<a, b, pos_a, pos_b, pc, head_a, head_b, result>>

semver_vars == <<input, field, num_check, version, read_epoch, outcome>>

checker_vars == <<checker, fed, returned, trail>>

vars == <<a, b, pos_a, pos_b, pc, head_a, head_b, result,
          input, field, num_check, version, read_epoch, outcome,
          checker, fed, returned, trail>>

-----------------------------------------------------------------------------
(* Bytes *)

Tilde == 126
Plus == 43
Hyphen == 45
Dot == 46
Colon == 58
Digit0 == 48
Digit9 == 57
LetterA == 97
LetterZ == 122

\* the table's entry for a byte that has no rank
Sentinel == 255

Byte == 0 .. 255

\* u8::is_ascii_digit
is_ascii_digit(c) == Digit0 <= c /\ c <= Digit9

not_ascii_digit(c) == ~ is_ascii_digit(c)

\* the two predicates as values, to be passed to position
IsDigit == [c \in Byte |-> is_ascii_digit(c)]

NotDigit == [c \in Byte |-> not_ascii_digit(c)]

-----------------------------------------------------------------------------
(* Bounds of the model *)

\* longest version string drawn for the comparator
MaxLen == 3

\* longest byte string fed to a NumChecker
MaxFed == 6

\* longest version string fed to to_semver
MaxInput == 8

\* longest short version string drawn for the total-order check, which
\* ranges over triples
MaxOrderLen == 2

-----------------------------------------------------------------------------
(* std::cmp::Ordering *)

Less == "Less"
Equal == "Equal"
Greater == "Greater"

Ordering == {Less, Equal, Greater}

\* Ordering::reverse
Reverse(o) == IF o = Less THEN Greater ELSE IF o = Greater THEN Less ELSE Equal

\* Ord::cmp on integers (u8 ranks)
int_cmp(x, y) == IF x < y THEN Less ELSE IF x > y THEN Greater ELSE Equal

-----------------------------------------------------------------------------
(* cmp.rs *)

\* the table, indexed by byte value + 1
CHAR_ORDER_DotRanked == [i \in 1 .. 256 |->
    LET c == i - 1
    IN  IF c = Tilde THEN 0
        ELSE IF LetterA <= c /\ c <= LetterZ THEN c - LetterA + 1
        ELSE IF c = Plus THEN 27
        ELSE IF c = Hyphen THEN 28
        ELSE IF is_ascii_digit(c) THEN c - Digit0 + 29
        ELSE IF c = Dot THEN 39
        ELSE 255]

CHAR_ORDER == <<
    255, 255, 255, 255, 255, 255, 255, 255, 255, 255, 255, 255, 255, 255, 255, 255,
    255, 255, 255, 255, 255, 255, 255, 255, 255, 255, 255, 255, 255, 255, 255, 255,
    255, 255, 255, 255, 255, 255, 255, 255, 255, 255, 255, 27, 255, 28, 255, 255,
    29, 30, 31, 32, 33, 34, 35, 36, 37, 38, 255, 255, 255, 255, 255, 255,
    255, 255, 255, 255, 255, 255, 255, 255, 255, 255, 255, 255, 255, 255, 255, 255,
    255, 255, 255, 255, 255, 255, 255, 255, 255, 255, 255, 255, 255, 255, 255, 255,
    255, 1, 2, 3, 4, 5, 6, 7, 8, 9, 10, 11, 12, 13, 14, 15,
    16, 17, 18, 19, 20, 21, 22, 23, 24, 25, 26, 255, 255, 255, 0, 255,
    255, 255, 255, 255, 255, 255, 255, 255, 255, 255, 255, 255, 255, 255, 255, 255,
    255, 255, 255, 255, 255, 255, 255, 255, 255, 255, 255, 255, 255, 255, 255, 255,
    255, 255, 255, 255, 255, 255, 255, 255, 255, 255, 255, 255, 255, 255, 255, 255,
    255, 255, 255, 255, 255, 255, 255, 255, 255, 255, 255, 255, 255, 255, 255, 255,
    255, 255, 255, 255, 255, 255, 255, 255, 255, 255, 255, 255, 255, 255, 255, 255,
    255, 255, 255, 255, 255, 255, 255, 255, 255, 255, 255, 255, 255, 255, 255, 255,
    255, 255, 255, 255, 255, 255, 255, 255, 255, 255, 255, 255, 255, 255, 255, 255,
    255, 255, 255, 255, 255, 255, 255, 255, 255, 255, 255, 255, 255, 255, 255, 255
>>

\* the rank of byte c: CHAR_ORDER[usize::from(c)]
rank(c) == CHAR_ORDER[c + 1]

Min(S) == CHOOSE x \in S : \A y \in S : x <= y

\* the zip loop of compare_alpha: the first position (1-based) at which the
\* ranks differ decides; Equal when the shorter run is exhausted
RECURSIVE zip_cmp(_, _, _)
zip_cmp(x, y, i) ==
    IF i > Len(x) \/ i > Len(y) THEN Equal
    ELSE LET o == int_cmp(rank(x[i]), rank(y[i]))
         IN  IF o # Equal THEN o ELSE zip_cmp(x, y, i + 1)

compare_alpha_NoTilde(x, y) ==
    LET o == zip_cmp(x, y, 1)
    IN  IF o # Equal THEN o
        ELSE IF Len(x) = Len(y) THEN Equal
        ELSE IF Len(x) < Len(y) THEN Less
        ELSE Greater

compare_alpha_LongerLess(x, y) ==
    LET o == zip_cmp(x, y, 1)
    IN  IF o # Equal THEN o
        ELSE IF Len(x) = Len(y) THEN Equal
        ELSE IF Len(x) < Len(y)
             THEN (IF y[Len(x) + 1] = Tilde THEN Less ELSE Greater)
        ELSE (IF x[Len(y) + 1] = Tilde THEN Greater ELSE Less)

compare_alpha_OneSided(x, y) ==
    LET o == zip_cmp(x, y, 1)
    IN  IF o # Equal THEN o
        ELSE IF Len(x) = Len(y) THEN Equal
        ELSE IF Len(x) < Len(y)
             THEN (IF y[Len(x) + 1] = Tilde THEN Greater ELSE Less)
        ELSE Greater

compare_alpha(x, y) ==
    LET o == zip_cmp(x, y, 1)
    IN  IF o # Equal THEN o
        ELSE IF Len(x) = Len(y) THEN Equal
        ELSE IF Len(x) < Len(y)
             THEN (IF y[Len(x) + 1] = Tilde THEN Greater ELSE Less)
        ELSE (IF x[Len(y) + 1] = Tilde THEN Less ELSE Greater)

position_NoOffset(slice, start, pred) ==
    LET hits == {i \in start .. Len(slice) - 1 : pred[slice[i + 1]]}
    IN  IF hits = {} THEN Len(slice)
        ELSE (CHOOSE x \in hits : \A y \in hits : x <= y) - start

\* position(slice, start, pred): index of the first byte at or after start
\* that satisfies pred, or slice.len()
position(slice, start, pred) ==
    LET hits == {i \in start .. Len(slice) - 1 : pred[slice[i + 1]]}
    IN  IF hits = {} THEN Len(slice) ELSE Min(hits)

\* &slice[from .. to]
Slice(s, from, to) == SubSeq(s, from + 1, to)

\* Number = u32, held as two 16-bit limbs <<high, low>>
LimbBase == 256 * 256

NumZero == <<0, 0>>

\* checked_mul(10) then checked_add(d): None when the value leaves u32
checked_push(n, d) ==
    LET lo == n[2] * 10 + d
        hi == n[1] * 10 + (lo \div LimbBase)
    IN  IF hi >= LimbBase THEN "None" ELSE <<hi, lo % LimbBase>>

\* str::parse::<u32> on a run of ASCII digits
RECURSIVE parse_digits(_, _, _)
parse_digits(s, i, acc) ==
    IF i > Len(s) THEN acc
    ELSE LET n == checked_push(acc, s[i] - Digit0)
         IN  IF n = "None" THEN "None" ELSE parse_digits(s, i + 1, n)

parse_u32(s) == IF Len(s) = 0 THEN "None" ELSE parse_digits(s, 1, NumZero)

parse_int_Wrapping(slice) ==
    LET RECURSIVE wrap(_, _)
        wrap(i, acc) ==
            IF i > Len(slice) THEN acc
            ELSE LET lo == acc[2] * 10 + (slice[i] - Digit0)
                     hi == acc[1] * 10 + (lo \div LimbBase)
                 IN  wrap(i + 1, <<hi % LimbBase, lo % LimbBase>>)
    IN  wrap(1, NumZero)

\* parse_int: unwrap_or(0)
parse_int(slice) ==
    LET r == parse_u32(slice) IN IF r = "None" THEN NumZero ELSE r

\* u32::cmp
num_cmp(x, y) ==
    IF x[1] # y[1] THEN int_cmp(x[1], y[1]) ELSE int_cmp(x[2], y[2])

\* "Compare alphabetical sections" of compare_versions
alpha_section(x, y, px, py) ==
    LET end_alpha_a == position(x, px, IsDigit)
        end_alpha_b == position(y, py, IsDigit)
    IN  [ord |-> compare_alpha(Slice(x, px, end_alpha_a), Slice(y, py, end_alpha_b)),
         pos_a |-> end_alpha_a, pos_b |-> end_alpha_b]

\* "Compare numerical sections" of compare_versions
num_section(x, y, px, py) ==
    LET end_num_a == position(x, px, NotDigit)
        end_num_b == position(y, py, NotDigit)
    IN  [ord |-> num_cmp(parse_int(Slice(x, px, end_num_a)),
                         parse_int(Slice(y, py, end_num_b))),
         pos_a |-> end_num_a, pos_b |-> end_num_b]

\* the while loop of compare_versions, from positions px, py
RECURSIVE versions_loop(_, _, _, _)
versions_loop(x, y, px, py) ==
    IF ~ (px < Len(x) \/ py < Len(y)) THEN Equal
    ELSE LET al == alpha_section(x, y, px, py)
         IN  IF al.ord # Equal THEN al.ord
             ELSE LET nu == num_section(x, y, al.pos_a, al.pos_b)
                  IN  IF nu.ord # Equal THEN nu.ord
                      ELSE versions_loop(x, y, nu.pos_a, nu.pos_b)

compare_versions(x, y) == versions_loop(x, y, 0, 0)

-----------------------------------------------------------------------------
(* Inputs of the comparator *)

\* bytes the short version strings are drawn from: '~', 'a', '-', '.', '1'
Alphabet == {Tilde, LetterA, Hyphen, Dot, Digit0 + 1}

SeqsUpTo(S, n) == UNION {[1 .. k -> S] : k \in 0 .. n}

ShortVersions == SeqsUpTo(Alphabet, MaxLen)

\* the decimal digits of u32::MAX, 4294967295
U32MaxDigits == <<4, 2, 9, 4, 9, 6, 7, 2, 9, 5>>

Digits(ds) == [i \in 1 .. Len(ds) |-> Digit0 + ds[i]]

\* digit runs: empty, zero, leading zeros, and runs around the u32 boundary
Runs == {
    <<>>, Digits(<<0>>), Digits(<<1>>), Digits(<<0, 0>>), Digits(<<0, 1>>),
    Digits(U32MaxDigits),
    Digits(<<4, 2, 9, 4, 9, 6, 7, 2, 9, 6>>),
    Digits(<<4, 2, 9, 4, 9, 6, 7, 2, 9, 7>>),
    Digits(<<4, 2, 9, 4, 9, 6, 7, 3, 0, 0>>),
    Digits(<<5, 0, 0, 0, 0, 0, 0, 0, 0, 0>>),
    Digits(<<0, 4, 2, 9, 4, 9, 6, 7, 2, 9, 5>>),
    Digits(<<0, 4, 2, 9, 4, 9, 6, 7, 2, 9, 6>>),
    Digits(<<1, 0, 0, 0, 0, 0, 0, 0, 0, 0, 0>>),
    Digits(<<9, 9, 9, 9, 9, 9, 9, 9, 9>>) }

RunPrefixes == {<<>>, <<LetterA>>, <<Digit0 + 1, Dot>>}
RunSuffixes == {<<>>, <<Tilde>>, <<Dot, Digit0 + 1>>}

RunVersions == {p \o r \o s : p \in RunPrefixes, r \in Runs, s \in RunSuffixes}

Versions == ShortVersions \cup RunVersions

\* the strings the total-order check ranges over
OrderVersions ==
    SeqsUpTo(Alphabet, MaxOrderLen)
        \cup {p \o r : p \in {<<>>, <<LetterA>>}, r \in Runs}

-----------------------------------------------------------------------------
(* The comparator as a state machine *)

\* no NumChecker is being fed
CheckerIdle ==
    /\ checker = "Start"
    /\ fed = <<>>
    /\ returned = <<>>
    /\ trail = <<>>

\* to_semver is not running
SemverIdle ==
    /\ CheckerIdle
    /\ input = <<>>
    /\ field = 0
    /\ num_check = "Start"
    /\ version = <<>>
    /\ read_epoch = FALSE
    /\ outcome = "Idle"

Init ==
    /\ a \in Versions
    /\ b \in Versions
    /\ pos_a = 0
    /\ pos_b = 0
    /\ head_a = 0
    /\ head_b = 0
    /\ pc = "start"
    /\ result = "None"
    /\ SemverIdle

\* a direct call of compare_alpha on the two byte strings
CallCompareAlpha ==
    /\ pc = "start"
    /\ result' = compare_alpha(a, b)
    /\ pc' = "alpha_done"
    /\ UNCHANGED <<a, b, pos_a, pos_b, head_a, head_b>>
    /\ UNCHANGED <<semver_vars, checker_vars>>

\* compare_versions is entered: pos_a = pos_b = 0
Enter ==
    /\ pc = "start"
    /\ pos_a' = 0
    /\ pos_b' = 0
    /\ pc' = "loop"
    /\ UNCHANGED <<a, b, head_a, head_b, result>>
    /\ UNCHANGED <<semver_vars, checker_vars>>

\* while pos_a < a.len() || pos_b < b.len()
LoopTest ==
    /\ pc = "loop"
    /\ IF pos_a < Len(a) \/ pos_b < Len(b)
       THEN pc' = "alpha" /\ UNCHANGED result
       ELSE pc' = "done" /\ result' = Equal
    /\ head_a' = pos_a
    /\ head_b' = pos_b
    /\ UNCHANGED <<a, b, pos_a, pos_b>>
    /\ UNCHANGED <<semver_vars, checker_vars>>

AlphaSection ==
    /\ pc = "alpha"
    /\ LET al == alpha_section(a, b, pos_a, pos_b)
       IN  IF al.ord # Equal
           THEN pc' = "done" /\ result' = al.ord /\ UNCHANGED <<pos_a, pos_b>>
           ELSE pc' = "num" /\ pos_a' = al.pos_a /\ pos_b' = al.pos_b
                /\ UNCHANGED result
    /\ UNCHANGED <<a, b, head_a, head_b>>
    /\ UNCHANGED <<semver_vars, checker_vars>>

NumSection ==
    /\ pc = "num"
    /\ LET nu == num_section(a, b, pos_a, pos_b)
       IN  IF nu.ord # Equal
           THEN pc' = "done" /\ result' = nu.ord /\ UNCHANGED <<pos_a, pos_b>>
           ELSE pc' = "loop" /\ pos_a' = nu.pos_a /\ pos_b' = nu.pos_b
                /\ UNCHANGED result
    /\ UNCHANGED <<a, b, head_a, head_b>>
    /\ UNCHANGED <<semver_vars, checker_vars>>

Next == CallCompareAlpha \/ Enter \/ LoopTest \/ AlphaSection \/ NumSection

Spec == Init /\ [][Next]_vars

\* the same machine on the strings of the total-order check
InitOrder ==
    /\ a \in OrderVersions
    /\ b \in OrderVersions
    /\ pos_a = 0
    /\ pos_b = 0
    /\ head_a = 0
    /\ head_b = 0
    /\ pc = "start"
    /\ result = "None"
    /\ SemverIdle

SpecOrder == InitOrder /\ [][Next]_vars

-----------------------------------------------------------------------------
(* utils.rs: NumChecker *)

NumCheckerStates == {"Start", "NotNum", "Zero", "OtherNum"}

\* NumChecker::numeric
numeric(st) == st = "Zero" \/ st = "OtherNum"

check_NoReject(st, c) ==
    IF (st = "Start" \/ st = "NotNum") /\ c = Digit0
    THEN [ok |-> TRUE, state |-> "Zero"]
    ELSE IF is_ascii_digit(c) THEN [ok |-> TRUE, state |-> "OtherNum"]
    ELSE [ok |-> TRUE, state |-> "NotNum"]

check_ZeroFromAny(st, c) ==
    IF c = Digit0 /\ st # "Zero" THEN [ok |-> TRUE, state |-> "Zero"]
    ELSE IF st = "Zero" /\ is_ascii_digit(c) THEN [ok |-> FALSE, state |-> st]
    ELSE IF is_ascii_digit(c) THEN [ok |-> TRUE, state |-> "OtherNum"]
    ELSE [ok |-> TRUE, state |-> "NotNum"]

\* NumChecker::check: the value returned and the state left behind
check(st, c) ==
    IF st = "Start" \/ st = "NotNum"
    THEN IF c = Digit0 THEN [ok |-> TRUE, state |-> "Zero"]
         ELSE IF Digit0 <= c /\ c <= Digit9 THEN [ok |-> TRUE, state |-> "OtherNum"]
         ELSE [ok |-> TRUE, state |-> "NotNum"]
    ELSE IF st = "Zero"
    THEN IF Digit0 <= c /\ c <= Digit9 THEN [ok |-> FALSE, state |-> st]
         ELSE [ok |-> TRUE, state |-> "NotNum"]
    ELSE IF Digit0 <= c /\ c <= Digit9 THEN [ok |-> TRUE, state |-> "OtherNum"]
         ELSE [ok |-> TRUE, state |-> "NotNum"]

-----------------------------------------------------------------------------
(* utils.rs: a NumChecker fed one byte at a time, as all_checks does *)

\* bytes fed to the NumChecker: '0', '1', 'a', '.'
CheckerAlphabet == {Digit0, Digit0 + 1, LetterA, Dot}

\* NumChecker::new(), nothing fed yet
InitChecker ==
    /\ a = <<>>
    /\ b = <<>>
    /\ pos_a = 0
    /\ pos_b = 0
    /\ head_a = 0
    /\ head_b = 0
    /\ pc = "idle"
    /\ result = "None"
    /\ input = <<>>
    /\ field = 0
    /\ num_check = "Start"
    /\ version = <<>>
    /\ read_epoch = FALSE
    /\ outcome = "Idle"
    /\ checker = "Start"
    /\ fed = <<>>
    /\ returned = <<>>
    /\ trail = <<>>

\* if !num_check.check(c) { return false; }: the next byte is checked as
\* long as no check has failed
Feed ==
    \E c \in CheckerAlphabet :
        /\ Len(fed) < MaxFed
        /\ \A i \in 1 .. Len(returned) : returned[i]
        /\ LET r == check(checker, c)
           IN  /\ checker' = r.state
               /\ returned' = Append(returned, r.ok)
               /\ trail' = Append(trail, r.state)
        /\ fed' = Append(fed, c)
        /\ UNCHANGED <<cmp_vars, semver_vars>>

NextChecker == Feed

SpecChecker == InitChecker /\ [][NextChecker]_vars

-----------------------------------------------------------------------------
(* semver.rs: to_semver *)

ToSemverError ==
    {"HasEpoch", "HasPost", "TooManyFields", "LeadingZero", "InvalidCharacter"}

empty_field_Never(st) == FALSE

\* "Empty field": num_check == NumChecker::Start
empty_field(st) == st = "Start"

too_many_fields_AnyLater(f) == f >= 2

\* the dot that would open a fourth field: field == 2
too_many_fields(f) == f = 2

pad_fields_OneShort(v, f) ==
    IF f < 1 THEN v \o <<Dot, Digit0>> ELSE v

\* "Add zeros for the missing fields": for _ in field .. 2 { extend(".0") }
pad_fields(v, f) ==
    IF f < 1 THEN v \o <<Dot, Digit0, Dot, Digit0>>
    ELSE IF f < 2 THEN v \o <<Dot, Digit0>>
    ELSE v

\* bytes fed to to_semver: '0', '1', '.', '~', ':', '-', 'a', '+'
SemverAlphabet == {Digit0, Digit0 + 1, Dot, Tilde, Colon, Hyphen, LetterA, Plus}

InitSemver ==
    /\ a = <<>>
    /\ b = <<>>
    /\ pos_a = 0
    /\ pos_b = 0
    /\ head_a = 0
    /\ head_b = 0
    /\ pc = "idle"
    /\ result = "None"
    /\ input = <<>>
    /\ field = 0
    /\ num_check = "Start"
    /\ version = <<>>
    /\ read_epoch = FALSE
    /\ outcome = "Scanning"
    /\ checker = "Start"
    /\ fed = <<>>
    /\ returned = <<>>
    /\ trail = <<>>

\* the iterator self.0.bytes() yields another byte c
Yields(c) ==
    /\ outcome = "Scanning"
    /\ Len(input) < MaxInput
    /\ input' = Append(input, c)
    /\ UNCHANGED <<cmp_vars, checker_vars>>

\* if b'0' <= c && c <= b'9'
ScanDigit ==
    \E c \in SemverAlphabet :
        /\ Yields(c)
        /\ Digit0 <= c /\ c <= Digit9
        /\ LET sep == num_check = "NotNum"
               pushed == (IF sep THEN Append(version, Dot) ELSE version)
               r == check(IF sep THEN "Start" ELSE num_check, c)
           IN  /\ version' = Append(pushed, c)
               /\ num_check' = r.state
               /\ outcome' = IF r.ok THEN "Scanning" ELSE "LeadingZero"
        /\ UNCHANGED <<field, read_epoch>>

\* else if c == b'.'
ScanDot ==
    /\ Yields(Dot)
    /\ IF empty_field(num_check)
       THEN outcome' = "InvalidCharacter"
            /\ UNCHANGED <<version, field, num_check>>
       ELSE IF too_many_fields(field)
       THEN outcome' = "TooManyFields"
            /\ UNCHANGED <<version, field, num_check>>
       ELSE /\ version' = Append(version, Dot)
            /\ field' = field + 1
            /\ num_check' = "Start"
            /\ UNCHANGED outcome
    /\ UNCHANGED read_epoch

\* else if c == b'~'
ScanTilde ==
    /\ Yields(Tilde)
    /\ IF empty_field(num_check)
       THEN outcome' = "InvalidCharacter"
            /\ UNCHANGED <<version, field, num_check>>
       ELSE /\ version' = Append(pad_fields(version, field), Hyphen)
            /\ field' = 3
            /\ num_check' = "Start"
            /\ UNCHANGED outcome
    /\ UNCHANGED read_epoch

epoch_branch_NoEmptyTest(c) == c = Colon /\ field = 0 /\ ~ read_epoch

\* the condition of the epoch branch
epoch_branch(c) == c = Colon /\ field = 0 /\ ~ read_epoch /\ version # <<>>

\* else if c == b':' && field == 0 && !read_epoch && !version.is_empty()
ScanEpoch ==
    /\ Yields(Colon)
    /\ epoch_branch(Colon)
    /\ IF version = <<Digit0>>
       THEN /\ version' = <<>>
            /\ read_epoch' = TRUE
            /\ num_check' = "Start"
            /\ UNCHANGED outcome
       ELSE outcome' = "HasEpoch"
            /\ UNCHANGED <<version, read_epoch, num_check>>
    /\ UNCHANGED field

\* else if c == b'-' && num_check != NumChecker::Start
ScanPost ==
    /\ Yields(Hyphen)
    /\ num_check # "Start"
    /\ outcome' = "HasPost"
    /\ UNCHANGED <<version, field, num_check, read_epoch>>

\* else if b'a' <= c && c <= b'z'
ScanLetter ==
    \E c \in SemverAlphabet :
        /\ Yields(c)
        /\ LetterA <= c /\ c <= LetterZ
        /\ IF field < 3
           THEN outcome' = "InvalidCharacter"
                /\ UNCHANGED <<version, num_check>>
           ELSE LET sep == numeric(num_check)
                    pushed == (IF sep THEN Append(version, Dot) ELSE version)
                IN  /\ version' = Append(pushed, c)
                    /\ num_check' = check(IF sep THEN "Start" ELSE num_check, c).state
                    /\ UNCHANGED outcome
        /\ UNCHANGED <<field, read_epoch>>

\* else: no branch takes the byte
ScanOther ==
    \E c \in SemverAlphabet :
        /\ Yields(c)
        /\ ~ (Digit0 <= c /\ c <= Digit9)
        /\ c # Dot
        /\ c # Tilde
        /\ ~ epoch_branch(c)
        /\ ~ (c = Hyphen /\ num_check # "Start")
        /\ ~ (LetterA <= c /\ c <= LetterZ)
        /\ outcome' = "InvalidCharacter"
        /\ UNCHANGED <<version, field, num_check, read_epoch>>

\* the iterator is exhausted: the code after the loop
EndOfInput ==
    /\ outcome = "Scanning"
    /\ IF empty_field(num_check)
       THEN outcome' = "InvalidCharacter" /\ UNCHANGED version
       ELSE outcome' = "Ok" /\ version' = pad_fields(version, field)
    /\ UNCHANGED <<input, field, num_check, read_epoch>>
    /\ UNCHANGED <<cmp_vars, checker_vars>>

NextSemver ==
    \/ ScanDigit
    \/ ScanDot
    \/ ScanTilde
    \/ ScanEpoch
    \/ ScanPost
    \/ ScanLetter
    \/ ScanOther
    \/ EndOfInput

SpecSemver == InitSemver /\ [][NextSemver]_vars

-----------------------------------------------------------------------------
(* semver.rs: to_semver as a function of the whole version text *)

\* the locals of to_semver before the loop
scan_start ==
    [field |-> 0, num_check |-> "Start", version |-> <<>>,
     read_epoch |-> FALSE, outcome |-> "Scanning"]

Err(st, kind) == [st EXCEPT !.outcome = kind]

drop_epoch_KeepBuffer(st) ==
    [st EXCEPT !.read_epoch = TRUE, !.num_check = "Start"]

\* version.clear(); read_epoch = true; num_check.reset()
drop_epoch(st) ==
    [st EXCEPT !.version = <<>>, !.read_epoch = TRUE, !.num_check = "Start"]

\* one pass of the loop body on byte c
scan_byte(st, c) ==
    IF Digit0 <= c /\ c <= Digit9
    THEN LET sep == st.num_check = "NotNum"
             pushed == (IF sep THEN Append(st.version, Dot) ELSE st.version)
             r == check(IF sep THEN "Start" ELSE st.num_check, c)
         IN  [st EXCEPT !.version = Append(pushed, c),
                        !.num_check = r.state,
                        !.outcome = IF r.ok THEN "Scanning" ELSE "LeadingZero"]
    ELSE IF c = Dot
    THEN IF empty_field(st.num_check) THEN Err(st, "InvalidCharacter")
         ELSE IF too_many_fields(st.field) THEN Err(st, "TooManyFields")
         ELSE [st EXCEPT !.version = Append(st.version, Dot),
                         !.field = st.field + 1,
                         !.num_check = "Start"]
    ELSE IF c = Tilde
    THEN IF empty_field(st.num_check) THEN Err(st, "InvalidCharacter")
         ELSE [st EXCEPT !.version = Append(pad_fields(st.version, st.field), Hyphen),
                         !.field = 3,
                         !.num_check = "Start"]
    ELSE IF c = Colon /\ st.field = 0 /\ ~ st.read_epoch /\ st.version # <<>>
    THEN IF st.version = <<Digit0>> THEN drop_epoch(st) ELSE Err(st, "HasEpoch")
    ELSE IF c = Hyphen /\ st.num_check # "Start"
    THEN Err(st, "HasPost")
    ELSE IF LetterA <= c /\ c <= LetterZ
    THEN IF st.field < 3 THEN Err(st, "InvalidCharacter")
         ELSE LET sep == numeric(st.num_check)
                  pushed == (IF sep THEN Append(st.version, Dot) ELSE st.version)
              IN  [st EXCEPT !.version = Append(pushed, c),
                             !.num_check = check(IF sep THEN "Start" ELSE st.num_check, c).state]
    ELSE Err(st, "InvalidCharacter")

\* the loop over self.0.bytes(), left at the first error
RECURSIVE scan_from(_, _, _)
scan_from(st, s, i) ==
    IF i > Len(s) \/ st.outcome # "Scanning" THEN st
    ELSE scan_from(scan_byte(st, s[i]), s, i + 1)

\* the code after the loop
scan_end(st) ==
    IF st.outcome # "Scanning" THEN st
    ELSE IF empty_field(st.num_check) THEN Err(st, "InvalidCharacter")
    ELSE [st EXCEPT !.outcome = "Ok", !.version = pad_fields(st.version, st.field)]

\* what to_semver returns: Ok with the semver text, or the error kind
Returned(kind, text) == [kind |-> kind, text |-> IF kind = "Ok" THEN text ELSE <<>>]

to_semver(s) ==
    LET st == scan_end(scan_from(scan_start, s, 1))
    IN  Returned(st.outcome, st.version)

from_semver_FirstOnly(sv) ==
    LET hits == {i \in 1 .. Len(sv) : sv[i] = Hyphen}
    IN  [i \in 1 .. Len(sv) |->
            IF hits # {} /\ i = Min(hits) THEN Tilde ELSE sv[i]]

\* From<SemverVersion> for Version: semver.0.replace("-", "~")
RECURSIVE from_semver(_)
from_semver(sv) ==
    IF sv = <<>> THEN <<>>
    ELSE <<IF Head(sv) = Hyphen THEN Tilde ELSE Head(sv)>> \o from_semver(Tail(sv))

-----------------------------------------------------------------------------
(* Properties of the comparator *)

IsDigits(s) == \A i \in 1 .. Len(s) : is_ascii_digit(s[i])

IsLetter(c) == LetterA <= c /\ c <= LetterZ

\* x is y followed by byte c and any suffix
Extends(x, y, c) ==
    /\ Len(x) > Len(y)
    /\ SubSeq(x, 1, Len(y)) = y
    /\ x[Len(y) + 1] = c

\* the 1-based positions, within the shorter string, at which x and y differ
DiffPositions(x, y) ==
    {i \in 1 .. Len(x) : i <= Len(y) /\ x[i] # y[i]}

\* C1: compare_versions is a total order on version strings: it returns one
\* of Less, Equal, Greater, compare_versions(b, a) is the reverse of
\* compare_versions(a, b), and a < b and b < c imply a < c.
C1_TotalOrder ==
    pc = "done" =>
        /\ result \in Ordering
        /\ compare_versions(b, a) = Reverse(result)
        /\ result = Less =>
            \A c \in OrderVersions :
                compare_versions(b, c) = Less => compare_versions(a, c) = Less

C1_Witness ==
    /\ pc = "done"
    /\ result = Less
    /\ a = <<Tilde, LetterA>>
    /\ b = <<>>
    /\ compare_versions(b, <<LetterA>>) = Less
    /\ compare_versions(a, <<LetterA>>) = Less

\* C2: the ordering is consistent with equality: compare_versions(a, b) is
\* Equal if and only if a and b are the same version text.
C2_EqualIffSameText ==
    pc = "done" => (result = Equal <=> a = b)

\* C3: when two non-digit runs have equal ranks at every position of the
\* shorter run, compare_alpha returns Equal for equal lengths; otherwise the
\* shorter run is Less, unless the first extra byte of the longer run is '~',
\* in which case the shorter run is Greater; so "~~" < "~~a" < "" < "a".
C3_AlphaLengthRule ==
    /\ compare_alpha(<<Tilde, Tilde>>, <<Tilde, Tilde, LetterA>>) = Less
    /\ compare_alpha(<<Tilde, Tilde, LetterA>>, <<>>) = Less
    /\ compare_alpha(<<>>, <<LetterA>>) = Less
    /\ (/\ pc = "alpha_done"
        /\ ~ (\E i \in 1 .. Len(a) : is_ascii_digit(a[i]))
        /\ ~ (\E i \in 1 .. Len(b) : is_ascii_digit(b[i]))
        /\ \A i \in 1 .. Len(a) : i <= Len(b) => rank(a[i]) = rank(b[i]))
       => /\ Len(a) = Len(b) => result = Equal
          /\ Len(a) < Len(b) =>
                result = (IF b[Len(a) + 1] = Tilde THEN Greater ELSE Less)
          /\ Len(a) > Len(b) =>
                result = (IF a[Len(b) + 1] = Tilde THEN Less ELSE Greater)

C3_Witness ==
    /\ pc = "alpha_done"
    /\ a = <<LetterA>>
    /\ b = <<LetterA, Tilde, LetterA>>
    /\ result = Greater

\* C4: a trailing segment introduced by '~' sorts below the version it
\* modifies and one introduced by '-' sorts above it:
\* compare_versions(v ~ s, v) = Less and compare_versions(v - s, v) = Greater.
C4_TrailingSegment ==
    pc = "done" =>
        /\ Extends(a, b, Tilde) => result = Less
        /\ Extends(a, b, Hyphen) => result = Greater

C4_Witness ==
    /\ pc = "done"
    /\ b # <<>>
    /\ Extends(a, b, Tilde)
    /\ Len(a) > Len(b) + 1
    /\ result = Less

\* a digit run without its leading zeros
RECURSIVE StripZeros(_)
StripZeros(s) ==
    IF s # <<>> /\ Head(s) = Digit0 THEN StripZeros(Tail(s)) ELSE s

\* order of two digit strings of the same length
RECURSIVE LexCmp(_, _)
LexCmp(x, y) ==
    IF x = <<>> THEN Equal
    ELSE IF Head(x) # Head(y) THEN int_cmp(Head(x), Head(y))
    ELSE LexCmp(Tail(x), Tail(y))

\* order of two decimal numerals without leading zeros
DecimalCmp(x, y) ==
    IF Len(x) # Len(y) THEN int_cmp(Len(x), Len(y)) ELSE LexCmp(x, y)

\* the numeral a digit run counts as: its value, or 0 (the empty numeral)
\* when the run is empty or exceeds u32::MAX
CountedNumeral(r) ==
    LET n == StripZeros(r)
    IN  IF DecimalCmp(n, Digits(U32MaxDigits)) = Greater THEN <<>> ELSE n

ExpectedNumOrder(r1, r2) == DecimalCmp(CountedNumeral(r1), CountedNumeral(r2))

\* x = p r1 s and y = p r2 s, where p = x[1..i], r1 = x[i+1..j] and
\* r2 = y[i+1..k] are the digit runs the numeric phase reads after p
DifferOnlyInRun(x, y, i, j, k) ==
    /\ i <= Len(y) /\ SubSeq(x, 1, i) = SubSeq(y, 1, i)
    /\ SubSeq(x, j + 1, Len(x)) = SubSeq(y, k + 1, Len(y))
    /\ IsDigits(SubSeq(x, i + 1, j))
    /\ IsDigits(SubSeq(y, i + 1, k))
    /\ (i = 0 \/ ~ is_ascii_digit(x[i]))
    /\ (j = Len(x) \/ ~ is_ascii_digit(x[j + 1]))
    /\ ((j > i /\ k > i) \/ j = Len(x))

\* C5: in the numeric phase each digit run is compared as an unsigned
\* integer, an empty run and a run that overflows u32 counting as 0: two
\* versions that differ only in the digit runs read by one numeric phase
\* compare as the numbers those runs count as.
C5_NumericRuns ==
    pc = "done" =>
        \A i \in 0 .. Len(a) : \A j \in i .. Len(a) : \A k \in i .. Len(b) :
            DifferOnlyInRun(a, b, i, j, k) =>
                result = ExpectedNumOrder(SubSeq(a, i + 1, j), SubSeq(b, i + 1, k))

\* an overflowing run against "1", after a common prefix
C5_Witness ==
    /\ pc = "done"
    /\ a = <<LetterA>> \o Digits(<<4, 2, 9, 4, 9, 6, 7, 2, 9, 6>>) \o <<Tilde>>
    /\ b = <<LetterA>> \o Digits(<<1>>) \o <<Tilde>>
    /\ result = Less

\* the bytes that have a rank, in rank order
RankOrder ==
    <<Tilde>> \o [i \in 1 .. 26 |-> LetterA + i - 1] \o <<Plus, Hyphen>>
        \o [i \in 1 .. 10 |-> Digit0 + i - 1]

TableFollowsRankOrder ==
    /\ Len(CHAR_ORDER) = 256
    /\ \A i \in 1 .. Len(RankOrder) : rank(RankOrder[i]) = i - 1
    /\ \A c \in Byte :
        (\A i \in 1 .. Len(RankOrder) : RankOrder[i] # c) => rank(c) = Sentinel

\* C6: CHAR_ORDER has 256 entries, gives the consecutive ranks 0, 1, ... to
\* '~', 'a'..'z', '+', '-', '0'..'9' in this order and the sentinel 255 to
\* every other byte; so at the first position where two strings differ
\* compare_alpha puts tilde before everything and a letter before any
\* non-letter (as in "test" < "te5t").
C6_CharOrder ==
    /\ TableFollowsRankOrder
    /\ (pc = "alpha_done" /\ DiffPositions(a, b) # {}) =>
        LET d == Min(DiffPositions(a, b))
        IN  /\ a[d] = Tilde => result = Less
            /\ b[d] = Tilde => result = Greater
            /\ (IsLetter(a[d]) /\ ~ IsLetter(b[d]) /\ b[d] # Tilde) => result = Less
            /\ (IsLetter(b[d]) /\ ~ IsLetter(a[d]) /\ a[d] # Tilde) => result = Greater

\* a letter against a digit, and a letter against '.', after a common prefix
C6_Witness ==
    /\ pc = "alpha_done"
    /\ a = <<LetterA, LetterA>>
    /\ b = <<LetterA, Digit0 + 1, LetterA>>
    /\ result = Less

-----------------------------------------------------------------------------
(* Properties of to_semver *)

\* the pieces of s between the occurrences of byte sep
RECURSIVE Split(_, _)
Split(s, sep) ==
    LET hits == {i \in 1 .. Len(s) : s[i] = sep}
    IN  IF hits = {} THEN <<s>>
        ELSE <<SubSeq(s, 1, Min(hits) - 1)>>
                 \o Split(SubSeq(s, Min(hits) + 1, Len(s)), sep)

\* s up to its first occurrence of byte sep, and the rest after it
Before(s, sep) ==
    LET hits == {i \in 1 .. Len(s) : s[i] = sep}
    IN  IF hits = {} THEN s ELSE SubSeq(s, 1, Min(hits) - 1)

After(s, sep) ==
    LET hits == {i \in 1 .. Len(s) : s[i] = sep}
    IN  SubSeq(s, Min(hits) + 1, Len(s))

Has(s, c) == \E i \in 1 .. Len(s) : s[i] = c

\* a non-empty run of digits without a leading zero
NumericField(f) ==
    /\ f # <<>>
    /\ IsDigits(f)
    /\ (Len(f) = 1 \/ f[1] # Digit0)

\* a semver pre-release identifier: non-empty, of digits, letters and
\* hyphens, without a leading zero when purely numeric
PreReleaseIdentifier(f) ==
    /\ f # <<>>
    /\ \A i \in 1 .. Len(f) :
        is_ascii_digit(f[i]) \/ IsLetter(f[i]) \/ f[i] = Hyphen
    /\ IsDigits(f) => NumericField(f)

AllOf(fs, P(_)) == \A i \in 1 .. Len(fs) : P(fs[i])

\* major.minor.patch, optionally followed by '-' and dot-separated
\* pre-release identifiers
SemverGrammar(s) ==
    LET main == Split(Before(s, Hyphen), Dot)
    IN  /\ Len(main) = 3
        /\ AllOf(main, NumericField)
        /\ Has(s, Hyphen) => AllOf(Split(After(s, Hyphen), Dot), PreReleaseIdentifier)

\* C7: whenever to_semver returns Ok(s), s matches the semver grammar: three
\* dot-separated non-empty numeric fields without leading zeros, optionally
\* followed by '-' and non-empty dot-separated pre-release identifiers whose
\* purely numeric ones have no leading zero.
C7_OkIsSemver ==
    outcome = "Ok" => SemverGrammar(version)

\* "1~0a1" gives "1.0.0-0.a.1"
C7_Witness ==
    /\ outcome = "Ok"
    /\ input = <<Digit0 + 1, Tilde, Digit0, LetterA, Digit0 + 1>>
    /\ version = <<Digit0 + 1, Dot, Digit0, Dot, Digit0, Hyphen,
                   Digit0, Dot, LetterA, Dot, Digit0 + 1>>

\* the version text without a dropped zero epoch "0:"
WithoutZeroEpoch(s) ==
    IF Len(s) >= 2 /\ s[1] = Digit0 /\ s[2] = Colon
    THEN SubSeq(s, 3, Len(s)) ELSE s

\* one, two or three non-empty numeric fields without leading zeros
MainPart(m) ==
    /\ Len(Split(m, Dot)) \in 1 .. 3
    /\ AllOf(Split(m, Dot), NumericField)

\* m followed by ".0" for each field it lacks
RECURSIVE ZeroPadded(_)
ZeroPadded(m) ==
    IF Len(Split(m, Dot)) >= 3 THEN m ELSE ZeroPadded(m \o <<Dot, Digit0>>)

IsPrefix(x, y) == Len(x) <= Len(y) /\ SubSeq(y, 1, Len(x)) = x

\* C8: when the main part has one, two or three non-empty numeric fields
\* without leading zeros, to_semver succeeds at end of input with the fields
\* unchanged and padded with ".0" to three fields; before the '-' that
\* replaces a '~' the same padded fields stand.
C8_ZeroPadding ==
    LET text == WithoutZeroEpoch(input)
        main == Before(text, Tilde)
    IN  MainPart(main) =>
            /\ (~ Has(text, Tilde) /\ outcome \notin {"Scanning"})
                => (outcome = "Ok" /\ version = ZeroPadded(main))
            /\ (Has(text, Tilde) /\ outcome \in {"Scanning", "Ok"})
                => IsPrefix(ZeroPadded(main) \o <<Hyphen>>, version)

\* "1.1~a1" gives "1.1.0-a.1"
C8_Witness ==
    /\ outcome = "Ok"
    /\ input = <<Digit0 + 1, Dot, Digit0 + 1, Tilde, LetterA, Digit0 + 1>>
    /\ version = <<Digit0 + 1, Dot, Digit0 + 1, Dot, Digit0, Hyphen,
                   LetterA, Dot, Digit0 + 1>>

\* the last byte of s is a digit that directly follows a '0' which began a
\* digit run
DigitAfterLeadingZero(s) ==
    LET n == Len(s)
    IN  /\ n >= 2
        /\ is_ascii_digit(s[n])
        /\ s[n - 1] = Digit0
        /\ (n = 2 \/ ~ is_ascii_digit(s[n - 2]))

\* C9: to_semver returns Err(LeadingZero) exactly when the scan, without an
\* earlier error, reaches a digit that directly follows a '0' which started a
\* numeric run, in a main field or in the pre-release part; a field that is
\* "0" or that contains or ends with '0' is accepted.
C9_LeadingZero ==
    /\ DigitAfterLeadingZero(input) => outcome = "LeadingZero"
    /\ outcome = "LeadingZero" => DigitAfterLeadingZero(input)
    /\ (outcome = "Ok" /\ input = <<Digit0 + 1, Dot, Digit0>>)
        => version = <<Digit0 + 1, Dot, Digit0, Dot, Digit0>>
    /\ (input = <<Digit0 + 1, Dot, Digit0 + 1, Digit0>>) => outcome # "LeadingZero"

\* "1~a01": a leading zero in the pre-release part
C9_Witness ==
    /\ outcome = "LeadingZero"
    /\ input = <<Digit0 + 1, Tilde, LetterA, Digit0, Digit0 + 1>>

Count(s, c) == Cardinality({i \in 1 .. Len(s) : s[i] = c})

\* C10: to_semver returns Err(TooManyFields) when a '.' follows a non-empty
\* field after two dots of the main part; no version with four or more main
\* fields converts to Ok; dots of the pre-release part (after '~') are not
\* counted and never give TooManyFields.
C10_TooManyFields ==
    /\ (/\ Len(input) >= 2
        /\ input[Len(input)] = Dot
        /\ is_ascii_digit(input[Len(input) - 1])
        /\ ~ Has(input, Tilde)
        /\ Count(SubSeq(input, 1, Len(input) - 1), Dot) = 2)
       => outcome = "TooManyFields"
    /\ outcome = "Ok" => Count(Before(input, Tilde), Dot) <= 2
    /\ outcome = "TooManyFields" => ~ Has(input, Tilde)

\* "1.1.1.": the third dot of the main part
C10_Witness ==
    /\ outcome = "TooManyFields"
    /\ input = <<Digit0 + 1, Dot, Digit0 + 1, Dot, Digit0 + 1, Dot>>

\* to_semver has returned
Finished == outcome \in ToSemverError \cup {"Ok"}

\* C11: a zero epoch is dropped without any other effect: for every version
\* text v without ':', to_semver("0:" v) returns what to_semver(v) returns,
\* the same Ok value or the same error kind.
C11_ZeroEpochDropped ==
    Finished =>
        /\ to_semver(input) = Returned(outcome, version)
        /\ ~ Has(input, Colon) =>
              to_semver(<<Digit0, Colon>> \o input) = Returned(outcome, version)

\* "1~a" and "0:1~a" both give "1.0.0-a"
C11_Witness ==
    /\ outcome = "Ok"
    /\ input = <<Digit0 + 1, Tilde, LetterA>>
    /\ to_semver(<<Digit0, Colon>> \o input).text
          = <<Digit0 + 1, Dot, Digit0, Dot, Digit0, Hyphen, LetterA>>

\* the byte just read is a ':', and the text before it
ColonRead == input # <<>> /\ input[Len(input)] = Colon

BeforeColon == SubSeq(input, 1, Len(input) - 1)

\* C12: a ':' that is not a legal zero-epoch delimiter makes to_semver
\* return Err(HasEpoch): when the value accumulated before the ':' at field 0
\* is anything other than exactly "0", and when a second ':' appears after an
\* epoch has been consumed.
C12_ColonIsHasEpoch ==
    ColonRead =>
        /\ (field = 0 /\ ~ Has(BeforeColon, Colon) /\ BeforeColon # <<Digit0>>)
              => outcome = "HasEpoch"
        /\ (read_epoch /\ Has(BeforeColon, Colon)) => outcome = "HasEpoch"

\* C12, as the code has it: a first ':' at field 0 after a non-empty value
\* other than exactly "0" gives Err(HasEpoch), and nothing else does; a ':'
\* after an empty value, a second ':' after a consumed epoch, or a ':' at a
\* later field gives Err(InvalidCharacter).
C12_ColonErrors ==
    /\ outcome = "HasEpoch" =>
        /\ ColonRead
        /\ field = 0
        /\ ~ Has(BeforeColon, Colon)
        /\ BeforeColon \notin {<<>>, <<Digit0>>}
    /\ ColonRead =>
        /\ (field = 0 /\ ~ Has(BeforeColon, Colon)
                /\ BeforeColon \notin {<<>>, <<Digit0>>})
              => outcome = "HasEpoch"
        /\ (BeforeColon = <<>> \/ Has(BeforeColon, Colon) \/ field # 0)
              => outcome = "InvalidCharacter"

\* "0:1:": a second ':' after the dropped epoch
C12_Witness ==
    /\ input = <<Digit0, Colon, Digit0 + 1, Colon>>
    /\ read_epoch
    /\ outcome = "InvalidCharacter"

\* C13: the round trip through semver is stable: when to_semver(v) = Ok(s),
\* Version::from(s) is s with every '-' rewritten to '~' and nothing else
\* changed, and to_semver of that Version returns Ok(s) again.
C13_RoundTrip ==
    outcome = "Ok" =>
        LET back == from_semver(version)
        IN  /\ Len(back) = Len(version)
            /\ \A i \in 1 .. Len(version) :
                back[i] = (IF version[i] = Hyphen THEN Tilde ELSE version[i])
            /\ to_semver(back) = Returned("Ok", version)

\* "1~a~1" gives "1.0.0-a-1", which comes back as "1.0.0~a~1"
C13_Witness ==
    /\ outcome = "Ok"
    /\ input = <<Digit0 + 1, Tilde, LetterA, Tilde, Digit0 + 1>>
    /\ from_semver(version)
          = <<Digit0 + 1, Dot, Digit0, Dot, Digit0, Tilde, LetterA, Tilde, Digit0 + 1>>

\* byte i of s is a digit that directly follows a '0' which began a digit run
FollowsLeadingZero(s, i) ==
    /\ i >= 2
    /\ is_ascii_digit(s[i])
    /\ s[i - 1] = Digit0
    /\ (i = 2 \/ ~ is_ascii_digit(s[i - 2]))

\* some maximal digit run of s has at least two digits and begins with '0'
HasZeroLedRun(s) == \E i \in 1 .. Len(s) : FollowsLeadingZero(s, i)

\* C14: a NumChecker fed a byte sequence from Start without reset returns
\* false from check exactly at the first digit that directly follows a '0'
\* which began a digit run, the state staying Zero; every other call returns
\* true and moves to Zero ('0' from Start or NotNum), OtherNum (another digit,
\* or any digit from OtherNum) or NotNum (a non-digit).  So all checks succeed
\* iff no maximal digit run of two or more digits begins with '0', and
\* numeric() is true exactly in Zero and OtherNum.
C14_NumChecker ==
    /\ \A i \in 1 .. Len(fed) :
        LET before == IF i = 1 THEN "Start" ELSE trail[i - 1]
        IN  IF FollowsLeadingZero(fed, i)
            THEN ~ returned[i] /\ before = "Zero" /\ trail[i] = "Zero"
            ELSE /\ returned[i]
                 /\ trail[i] =
                      (IF ~ is_ascii_digit(fed[i]) THEN "NotNum"
                       ELSE IF fed[i] = Digit0 /\ before \in {"Start", "NotNum"}
                            THEN "Zero"
                       ELSE "OtherNum")
    /\ (\A i \in 1 .. Len(returned) : returned[i]) <=> ~ HasZeroLedRun(fed)
    /\ numeric(checker) <=> checker \in {"Zero", "OtherNum"}
    /\ fed # <<>> => (numeric(checker) <=> is_ascii_digit(fed[Len(fed)]))

\* "a10.01": every check succeeds until the '1' after the second '0'
C14_Witness ==
    /\ fed = <<LetterA, Digit0 + 1, Digit0, Dot, Digit0, Digit0 + 1>>
    /\ returned = <<TRUE, TRUE, TRUE, TRUE, TRUE, FALSE>>
    /\ checker = "Zero"

\* the runs the alphabetical section passes to compare_alpha
AlphaRunA == Slice(a, pos_a, position(a, pos_a, IsDigit))

AlphaRunB == Slice(b, pos_b, position(b, pos_b, IsDigit))

\* every slice taken at the current positions is within its string
InBounds ==
    /\ 0 <= pos_a /\ pos_a <= Len(a)
    /\ 0 <= pos_b /\ pos_b <= Len(b)
    /\ pc = "alpha" =>
        /\ pos_a <= position(a, pos_a, IsDigit)
        /\ position(a, pos_a, IsDigit) <= Len(a)
        /\ pos_b <= position(b, pos_b, IsDigit)
        /\ position(b, pos_b, IsDigit) <= Len(b)
    /\ pc = "num" =>
        /\ pos_a <= position(a, pos_a, NotDigit)
        /\ position(a, pos_a, NotDigit) <= Len(a)
        /\ pos_b <= position(b, pos_b, NotDigit)
        /\ position(b, pos_b, NotDigit) <= Len(b)

\* the byte compare_alpha reads when the run lengths differ (b[a.len()] or
\* a[b.len()]) lies inside the longer run, before the next digit
MismatchReadInRun ==
    (pc = "alpha" /\ zip_cmp(AlphaRunA, AlphaRunB, 1) = Equal) =>
        /\ Len(AlphaRunA) < Len(AlphaRunB) =>
            /\ pos_b + Len(AlphaRunA) < Len(b)
            /\ ~ is_ascii_digit(b[pos_b + Len(AlphaRunA) + 1])
        /\ Len(AlphaRunA) > Len(AlphaRunB) =>
            /\ pos_a + Len(AlphaRunB) < Len(a)
            /\ ~ is_ascii_digit(a[pos_a + Len(AlphaRunB) + 1])

\* a step never moves a position back, and an iteration that returns to the
\* loop test has moved at least one position past where the test saw it
Progress ==
    /\ pos_a' >= pos_a
    /\ pos_b' >= pos_b
    /\ (pc = "num" /\ pc' = "loop") => (pos_a' > head_a \/ pos_b' > head_b)

\* C15: compare_versions terminates on every pair of inputs without an
\* out-of-bounds access: always pos_a <= len(a) and pos_b <= len(b), the
\* positions never decrease, every iteration of the main loop strictly
\* increases at least one of them, the index read in compare_alpha's
\* length-mismatch branch is inside the longer run.
C15_TerminatesInBounds ==
    /\ [](InBounds /\ MismatchReadInRun)
    /\ [][Progress]_vars

\* "1.1" against "1.1": the loop test after two full iterations
C15_Witness ==
    /\ pc = "loop"
    /\ a = <<Digit0 + 1, Dot, Digit0 + 1>>
    /\ b = a
    /\ head_a = 1
    /\ pos_a = 3
    /\ pos_b = 3

====
